---- MODULE Spec2Model ----
(***************************************************************************)
(* Model of backend/main.py: one websocket connection served by            *)
(* websocket_endpoint.  The send loop is the async generator               *)
(* request_generator (configuration message, then client audio, gated by   *)
(* the voice-activity state machine or passed through); the receive loop   *)
(* is the `async for response in responses` body (final-result filtering,  *)
(* duplicate suppression, tail-weighted majority vote, send to client).    *)
(*                                                                         *)
(* Bytes of the client stream are identified by their position: a byte     *)
(* string is [off, len], the len bytes starting at stream offset off; the  *)
(* synthesized zero_frame has off = None.                                  *)
(***************************************************************************)
EXTENDS Integers, Sequences, FiniteSets, TLC

VARIABLES
    \* configuration read from the environment (os.getenv)
    use_vad, preroll_ms, hangover_ms, keepalive_ms, tail_words, tail_weight,
    \* request_generator
    gen_pc,                 \* "start" | "recv" | "drain" | "done" | "failed" | "abandoned"
    buffer,                 \* bytearray: [off, len]
    speech_active, preroll, unvoiced_count,
    last_client_data_ts, wait_start,
    upstream,               \* requests yielded to the recognizer, in order
    \* client transport
    next_off,               \* stream offset of the next byte the client sends
    client_closed,          \* the client has closed its side
    client_state,           \* websocket.client_state as the application sees it
    client_out,             \* JSON events sent to the client, in order
    \* receive loop
    recv_pc,                \* "await" | "handle" | "done" | "failed"
    result,                 \* the result being handled (loop variable)
    last_max_word_end_ns,
    n_results,              \* results delivered by the recognizer so far
    outcome,                \* which exit the last handled result took
    closed_warnings,        \* "WebSocket is closed" warnings logged
    error_logged,           \* logging.error("An error occurred ...") happened
    \* clock and history
    now,                    \* time.monotonic(), in ms
    last_emit_ts,           \* time the latest client audio was yielded upstream
    processed,              \* frames classified so far: [off, active, speech]
    last_keepalive_ts,      \* time the latest keepalive frame was yielded, or None
    n_skipped,              \* results skipped as not final or malformed so far
    \* stabilization state of the hysteresis variant
    previous_speaker_tag

cfg_vars  == <<use_vad, preroll_ms, hangover_ms, keepalive_ms, tail_words, tail_weight>>
gen_vars  == <<gen_pc, buffer, speech_active, preroll, unvoiced_count,
               last_client_data_ts, wait_start, upstream, last_emit_ts, processed,
               last_keepalive_ts>>
cli_vars  == <<next_off, client_closed, client_state>>
recv_vars == <<recv_pc, result, last_max_word_end_ns, n_results, outcome,
               closed_warnings, error_logged, client_out, previous_speaker_tag,
               n_skipped>>
vars == <<cfg_vars, gen_vars, cli_vars, recv_vars, now>>

----------------------------------------------------------------------------
(* Program constants *)

None == 0 - 1

sample_rate_hz == 16000
frame_ms == 30
bytes_per_sample == 2
frame_bytes == ((sample_rate_hz * frame_ms) \div 1000) * bytes_per_sample

DefaultPrerollMs == 150
DefaultHangoverMs == 400
DefaultKeepaliveMs == 1000
DefaultTailWords == 5
DefaultTailWeight == 2

Max(a, b) == IF a >= b THEN a ELSE b

\* recv_timeout_sec = max(0.02, frame_ms / 1000), in ms
recv_timeout_ms == Max(20, frame_ms)

----------------------------------------------------------------------------
(* Bounds of the model *)

MaxFrames == 4          \* the client sends at most MaxFrames * frame_bytes bytes
MaxTicks == 3           \* the clock advances at most MaxTicks times
MaxResults == 2         \* the recognizer delivers at most MaxResults results
MaxWords == 5           \* words per result in the vote inputs
MaxTailWeight == 2      \* VOTE_TAIL_WEIGHT ranges over 0..MaxTailWeight
MaxConnFrames == 1      \* client frames in the whole-connection specification
MaxTimedFrames == 2     \* client frames in the specification with the clock
MaxChunks == 2          \* chunks forwarded on the ungated path
MaxConnTicks == 1       \* clock steps in the whole-connection specification

\* The clock advances in steps of one receive timeout.
TickMs == recv_timeout_ms
MaxTime == MaxTicks * TickMs

PrerollMsChoices == {0, 70}
HangoverMsChoices == {30, 70, 100, DefaultHangoverMs}
KeepaliveMsChoices == {TickMs, 2 * TickMs}
TailWordsChoices == {0, 2, DefaultTailWords}
TailWeightChoices == 0 .. MaxTailWeight
ChunkLens == {0, frame_bytes \div 2, frame_bytes, 2 * frame_bytes}
ConnChunkLens == {frame_bytes \div 2, frame_bytes}

----------------------------------------------------------------------------
(* request_generator: parameters *)

\* use_vad after `if use_vad and webrtcvad is None: use_vad = False`.
EffectiveUseVad(vad_enabled, vad_available) == vad_enabled /\ vad_available

preroll_frames == Max(1, preroll_ms \div frame_ms)
hangover_frames == Max(1, hangover_ms \div frame_ms)

zero_frame == [off |-> None, len |-> frame_bytes]

ConfigRequest == [kind |-> "config", off |-> None, len |-> 0]
\* Faulty variant: the audio request built with the configuration keyword.
AudioRequestAsConfig(b) == [kind |-> "config", off |-> b.off, len |-> b.len]

AudioRequest(b) == [kind |-> "audio", off |-> b.off, len |-> b.len]

\* The recognizer still consumes the request stream.
RpcAlive == recv_pc \in {"await", "handle"}

\* Faulty variant: a deque without maxlen.
DequeAppendUnbounded(d, x, cap) == Append(d, x)

\* collections.deque(maxlen = cap).append
DequeAppend(d, x, cap) ==
    IF Len(d) >= cap THEN Append(Tail(d), x) ELSE Append(d, x)

\* frame = bytes(buffer[:frame_bytes])
FrameOf(buf) == [off |-> buf.off, len |-> frame_bytes]

\* Faulty variant: the whole buffer is dropped with the frame.
DropFrameAll(buf) == [off |-> buf.off + buf.len, len |-> 0]

\* del buffer[:frame_bytes]
DropFrame(buf) == [off |-> buf.off + frame_bytes, len |-> buf.len - frame_bytes]

\* buffer.extend(chunk)
Extend(buf, n) == [off |-> buf.off, len |-> buf.len + n]

\* Faulty variant: the hangover ends one frame late.
HangoverReachedLate(unvoiced) == unvoiced > hangover_frames

\* if unvoiced_count >= hangover_frames
HangoverReached(unvoiced) == unvoiced >= hangover_frames

\* One pass of the body of `while len(buffer) >= frame_bytes` after the
\* classification: the new gate state and the frames yielded, in order.
GateStep(active, unvoiced, pre, frame, is_speech) ==
    IF ~active
    THEN LET pre1 == DequeAppend(pre, frame, preroll_frames) IN
         IF is_speech
         THEN [speech_active |-> TRUE, unvoiced_count |-> 0,
               preroll |-> <<>>, out |-> pre1 \o <<frame>>]
         ELSE [speech_active |-> FALSE, unvoiced_count |-> unvoiced,
               preroll |-> pre1, out |-> <<>>]
    ELSE IF is_speech
         THEN [speech_active |-> TRUE, unvoiced_count |-> 0,
               preroll |-> pre, out |-> <<frame>>]
         ELSE IF HangoverReached(unvoiced + 1)
              THEN [speech_active |-> FALSE, unvoiced_count |-> 0,
                    preroll |-> <<>>, out |-> <<frame>>]
              ELSE [speech_active |-> TRUE, unvoiced_count |-> unvoiced + 1,
                    preroll |-> pre, out |-> <<frame>>]

\* Faulty variant: the keepalive test without the elapsed-time condition.
KeepaliveDueNoWait == ~speech_active

\* The keepalive test of the TimeoutError handler.
KeepaliveDue ==
    ~speech_active /\ (now - last_client_data_ts) >= keepalive_ms

RequestsOf(frames) == [i \in 1 .. Len(frames) |-> AudioRequest(frames[i])]

\* Faulty variant: the keepalive frame is also stored in the preroll buffer.
KeepaliveStepStored(active, unvoiced, pre) ==
    [speech_active |-> active, unvoiced_count |-> unvoiced,
     preroll |-> DequeAppend(pre, zero_frame, preroll_frames), out |-> <<zero_frame>>]

\* The TimeoutError branch when the keepalive is due: the gate state after
\* it (untouched) and the frame yielded.
KeepaliveStep(active, unvoiced, pre) ==
    [speech_active |-> active, unvoiced_count |-> unvoiced,
     preroll |-> pre, out |-> <<zero_frame>>]

----------------------------------------------------------------------------
(* request_generator: steps *)

\* yield StreamingRecognizeRequest(streaming_config=...), then the set-up up
\* to the first receive.
SendConfig ==
    /\ gen_pc = "start"
    /\ IF RpcAlive
       THEN /\ upstream' = Append(upstream, ConfigRequest)
            /\ gen_pc' = "recv"
            /\ last_client_data_ts' = now
            /\ wait_start' = now
       ELSE /\ gen_pc' = "abandoned"
            /\ UNCHANGED <<upstream, last_client_data_ts, wait_start>>
    /\ UNCHANGED <<buffer, speech_active, preroll, unvoiced_count, last_emit_ts,
                   processed, last_keepalive_ts, cfg_vars, cli_vars, recv_vars, now>>

\* Faulty variant: the ungated path forwards at most one frame of each chunk.
UngatedPayloadOneFrame(off, n) ==
    [off |-> off, len |-> IF n > frame_bytes THEN frame_bytes ELSE n]

\* audio_content=data: the chunk as received.
UngatedPayload(off, n) == [off |-> off, len |-> n]

\* not use_vad: data = await websocket.receive_bytes(); yield audio_content=data
RecvChunkUngated(n) ==
    /\ gen_pc = "recv"
    /\ ~use_vad
    /\ ~client_closed
    /\ next_off' = next_off + n
    /\ IF RpcAlive
       THEN /\ upstream' = Append(upstream, AudioRequest(UngatedPayload(next_off, n)))
            /\ last_emit_ts' = now
            /\ gen_pc' = "recv"
       ELSE /\ gen_pc' = "abandoned"
            /\ UNCHANGED <<upstream, last_emit_ts>>
    /\ UNCHANGED <<buffer, speech_active, preroll, unvoiced_count,
                   last_client_data_ts, wait_start, processed, last_keepalive_ts,
                   client_closed, client_state, cfg_vars, recv_vars, now>>

\* use_vad: chunk = await wait_for(receive_bytes(), timeout); buffer.extend(chunk)
RecvChunkGated(n) ==
    /\ gen_pc = "recv"
    /\ use_vad
    /\ ~client_closed
    /\ next_off' = next_off + n
    /\ buffer' = Extend(buffer, n)
    /\ last_client_data_ts' = now
    /\ IF buffer'.len >= frame_bytes
       THEN gen_pc' = "drain" /\ UNCHANGED wait_start
       ELSE gen_pc' = "recv" /\ wait_start' = now
    /\ UNCHANGED <<speech_active, preroll, unvoiced_count, upstream, last_emit_ts,
                   processed, last_keepalive_ts, client_closed, client_state,
                   cfg_vars, recv_vars, now>>

\* except asyncio.TimeoutError: keepalive if due; continue
Timeout ==
    /\ gen_pc = "recv"
    /\ use_vad
    /\ now - wait_start >= recv_timeout_ms
    /\ IF KeepaliveDue
       THEN IF RpcAlive
            THEN LET k == KeepaliveStep(speech_active, unvoiced_count, preroll) IN
                 /\ upstream' = upstream \o RequestsOf(k.out)
                 /\ speech_active' = k.speech_active
                 /\ unvoiced_count' = k.unvoiced_count
                 /\ preroll' = k.preroll
                 /\ last_keepalive_ts' = now
                 /\ gen_pc' = "recv"
                 /\ wait_start' = now
            ELSE /\ gen_pc' = "abandoned"
                 /\ UNCHANGED <<upstream, wait_start, speech_active, unvoiced_count,
                                preroll, last_keepalive_ts>>
       ELSE /\ wait_start' = now
            /\ UNCHANGED <<upstream, gen_pc, speech_active, unvoiced_count,
                           preroll, last_keepalive_ts>>
    /\ UNCHANGED <<buffer, last_emit_ts, last_client_data_ts, processed,
                   cfg_vars, cli_vars, recv_vars, now>>

\* One pass of `while len(buffer) >= frame_bytes`; is_speech is the
\* classifier's answer for the frame.
ProcessFrame(is_speech) ==
    /\ gen_pc = "drain"
    /\ buffer.len >= frame_bytes
    /\ LET frame == FrameOf(buffer)
           g == GateStep(speech_active, unvoiced_count, preroll, frame, is_speech)
       IN  /\ buffer' = DropFrame(buffer)
           /\ processed' = Append(processed,
                  [off |-> frame.off, active |-> speech_active, speech |-> is_speech])
           /\ speech_active' = g.speech_active
           /\ unvoiced_count' = g.unvoiced_count
           /\ preroll' = g.preroll
           /\ IF g.out = <<>>
              THEN /\ UNCHANGED <<upstream, last_emit_ts>>
                   /\ IF buffer'.len >= frame_bytes
                      THEN gen_pc' = "drain" /\ UNCHANGED wait_start
                      ELSE gen_pc' = "recv" /\ wait_start' = now
              ELSE IF RpcAlive
                   THEN /\ upstream' = upstream \o RequestsOf(g.out)
                        /\ last_emit_ts' = now
                        /\ IF buffer'.len >= frame_bytes
                           THEN gen_pc' = "drain" /\ UNCHANGED wait_start
                           ELSE gen_pc' = "recv" /\ wait_start' = now
                   ELSE /\ gen_pc' = "abandoned"
                        /\ UNCHANGED <<upstream, last_emit_ts, wait_start>>
    /\ UNCHANGED <<last_client_data_ts, last_keepalive_ts,
                   cfg_vars, cli_vars, recv_vars, now>>

\* Faulty variant: the disconnect handler goes round the loop again.
DisconnectPcContinue == "recv"

\* The state the generator is left in by `except WebSocketDisconnect: return`.
DisconnectPc == "done"

\* receive_bytes() raises WebSocketDisconnect: log at info level and return.
RecvDisconnect ==
    /\ gen_pc = "recv"
    /\ client_closed
    /\ client_state' = "DISCONNECTED"
    /\ gen_pc' = DisconnectPc
    /\ UNCHANGED <<buffer, speech_active, preroll, unvoiced_count,
                   last_client_data_ts, wait_start, upstream, last_emit_ts,
                   processed, last_keepalive_ts, next_off, client_closed,
                   cfg_vars, recv_vars, now>>

\* receive_bytes() raises anything else: the generator ends with the exception.
RecvFail ==
    /\ gen_pc = "recv"
    /\ ~client_closed
    /\ gen_pc' = "failed"
    /\ UNCHANGED <<buffer, speech_active, preroll, unvoiced_count,
                   last_client_data_ts, wait_start, upstream, last_emit_ts,
                   processed, last_keepalive_ts, cfg_vars, cli_vars, recv_vars, now>>

\* The client closes the connection.
ClientClose ==
    /\ ~client_closed
    /\ client_closed' = TRUE
    /\ UNCHANGED <<next_off, client_state, cfg_vars, gen_vars, recv_vars, now>>

\* time.monotonic() advances.
Tick ==
    /\ now + TickMs <= MaxTime
    /\ now' = now + TickMs
    /\ UNCHANGED <<cfg_vars, gen_vars, cli_vars, recv_vars>>

----------------------------------------------------------------------------
(* Recognizer results *)

NoDuration == [seconds |-> None, nanos |-> None]
Duration(s, n) == [seconds |-> s, nanos |-> n]
Word(tag, end) == [speaker_tag |-> tag, end_time |-> end]
Alternative(t, ws) == [transcript |-> t, words |-> ws]
Result(final, alts) == [is_final |-> final, alternatives |-> alts]
FinalResult(t, ws) == Result(TRUE, <<Alternative(t, ws)>>)

\* The value of `result` before the first response.
NoResult == Result(FALSE, <<>>)

\* str.strip() removes these from both ends.
Whitespace == {" ", "\t", "\n"}

RECURSIVE LStrip(_)
LStrip(t) ==
    IF t # <<>> /\ Head(t) \in Whitespace THEN LStrip(Tail(t)) ELSE t

RECURSIVE RStrip(_)
RStrip(t) ==
    IF t # <<>> /\ t[Len(t)] \in Whitespace
    THEN RStrip(SubSeq(t, 1, Len(t) - 1)) ELSE t

Strip(t) == RStrip(LStrip(t))

\* Faulty variant: the blank test without strip().
BlankTranscriptNoStrip(t) == t = <<>>

\* not transcript or not transcript.strip()
BlankTranscript(t) == t = <<>> \/ Strip(t) = <<>>

\* to_ns(d): d is a Duration with seconds and nanos
to_ns(d) == d.seconds * 1000000000 + d.nanos

\* max([to_ns(w.end_time) for w in words if w.end_time is not None] or [None])
RECURSIVE MaxEndFrom(_, _, _)
MaxEndFrom(words, i, acc) ==
    IF i > Len(words) THEN acc
    ELSE IF words[i].end_time = NoDuration
         THEN MaxEndFrom(words, i + 1, acc)
         ELSE MaxEndFrom(words, i + 1, Max(acc, to_ns(words[i].end_time)))

current_max_end_ns(words) == MaxEndFrom(words, 1, None)

\* Faulty variant: the duplicate test with < for <=.
IsDuplicateStrict(cur, last) == cur # None /\ last # None /\ cur < last

\* current_max_end_ns <= last_max_word_end_ns, both defined
IsDuplicate(cur, last) == cur # None /\ last # None /\ cur <= last

\* A dict in insertion order: a sequence of [tag, n], one entry per key.
DictHas(d, k) == \E i \in 1 .. Len(d) : d[i].tag = k

DictGet(d, k, default) ==
    IF DictHas(d, k)
    THEN (CHOOSE e \in {d[i] : i \in 1 .. Len(d)} : e.tag = k).n
    ELSE default

\* d[k] = v: an existing key keeps its place, a new one goes last.
DictSet(d, k, v) ==
    IF DictHas(d, k)
    THEN [i \in 1 .. Len(d) |-> IF d[i].tag = k THEN [tag |-> k, n |-> v] ELSE d[i]]
    ELSE Append(d, [tag |-> k, n |-> v])

\* for w in words[i:]: skip an untagged word, else tag_counts[tag] += inc
RECURSIVE AddTags(_, _, _, _)
AddTags(d, words, i, inc) ==
    IF i > Len(words) THEN d
    ELSE IF words[i].speaker_tag = None
         THEN AddTags(d, words, i + 1, inc)
         ELSE AddTags(DictSet(d, words[i].speaker_tag,
                              DictGet(d, words[i].speaker_tag, 0) + inc),
                      words, i + 1, inc)

\* tag_counts after the first loop.
pre_weight_counts(words) == AddTags(<<>>, words, 1, 1)

\* The guard of the tail-weighting block.
TailWeightingOn == tail_weight > 1 /\ tail_words > 0

\* Faulty variant: the tail-weighting block left out.
tag_counts_no_tail(words) == pre_weight_counts(words)

\* tag_counts after the tail-weighting block.
tag_counts(words) ==
    IF TailWeightingOn
    THEN AddTags(pre_weight_counts(words), words,
                 Max(0, Len(words) - tail_words) + 1, tail_weight - 1)
    ELSE pre_weight_counts(words)

\* Faulty variant: the last maximal item wins.
RECURSIVE MaxItemFromLast(_, _, _)
MaxItemFromLast(d, i, best) ==
    IF i > Len(d) THEN best
    ELSE MaxItemFromLast(d, i + 1, IF d[i].n >= best.n THEN d[i] ELSE best)

\* max(tag_counts.items(), key=lambda kv: kv[1])[0]: the first maximal item.
RECURSIVE MaxItemFrom(_, _, _)
MaxItemFrom(d, i, best) ==
    IF i > Len(d) THEN best
    ELSE MaxItemFrom(d, i + 1, IF d[i].n > best.n THEN d[i] ELSE best)

MajorityTag(d) == MaxItemFrom(d, 2, d[1]).tag

\* Faulty variant: interim results are handled like final ones.
IsFinalAlways(r) == TRUE

\* if result.is_final
IsFinal(r) == r.is_final

\* The exit a result takes through the loop body, the watermark after it and
\* the speaker_tag chosen (None when the result is dropped before the vote).
Stabilize(r, last) ==
    IF ~IsFinal(r) THEN [outcome |-> "interim", last |-> last, speaker_tag |-> None]
    ELSE IF r.alternatives = <<>> \/ r.alternatives[1].words = <<>>
    THEN [outcome |-> "malformed", last |-> last, speaker_tag |-> None]
    ELSE LET words == r.alternatives[1].words
             transcript == r.alternatives[1].transcript
             cur == current_max_end_ns(words)
             last1 == IF cur # None THEN cur ELSE last
             counts == tag_counts(words)
         IN  IF BlankTranscript(transcript)
             THEN [outcome |-> "blank", last |-> last, speaker_tag |-> None]
             ELSE IF IsDuplicate(cur, last)
             THEN [outcome |-> "duplicate", last |-> last, speaker_tag |-> None]
             ELSE IF counts = <<>>
             THEN [outcome |-> "untagged", last |-> last1, speaker_tag |-> None]
             ELSE [outcome |-> "vote", last |-> last1, speaker_tag |-> MajorityTag(counts)]

\* Faulty variant: the send without the client_state test.
CanSendAlways == TRUE

\* if websocket.client_state == WebSocketState.CONNECTED
CanSend == client_state = "CONNECTED"

Event(tag, transcript) ==
    [speaker_tag |-> tag, transcript |-> transcript, is_final |-> TRUE]

----------------------------------------------------------------------------
(* Receive loop: steps *)

\* `async for response in responses` / `for result in response.results`
\* yields the next result.
RecognizerResponse(r) ==
    /\ recv_pc = "await"
    /\ n_results < MaxResults
    /\ n_results' = n_results + 1
    /\ result' = r
    /\ recv_pc' = "handle"
    /\ UNCHANGED <<last_max_word_end_ns, outcome, closed_warnings, error_logged,
                   client_out, previous_speaker_tag, n_skipped,
                   cfg_vars, gen_vars, cli_vars, now>>

\* The loop body for one result, up to and including send_json.
HandleResult ==
    /\ recv_pc = "handle"
    /\ LET s == Stabilize(result, last_max_word_end_ns) IN
       /\ last_max_word_end_ns' = s.last
       /\ IF s.outcome = "vote"
          THEN IF CanSend
               THEN /\ client_out' = Append(client_out,
                          Event(s.speaker_tag, result.alternatives[1].transcript))
                    /\ outcome' = "sent"
                    /\ UNCHANGED closed_warnings
               ELSE /\ closed_warnings' = closed_warnings + 1
                    /\ outcome' = "closed"
                    /\ UNCHANGED client_out
          ELSE /\ outcome' = s.outcome
               /\ UNCHANGED <<client_out, closed_warnings>>
       /\ n_skipped' = IF s.outcome \in {"interim", "malformed"}
                       THEN n_skipped + 1 ELSE n_skipped
    /\ recv_pc' = "await"
    /\ UNCHANGED <<result, n_results, error_logged, previous_speaker_tag,
                   cfg_vars, gen_vars, cli_vars, now>>

\* The response stream ends once the request stream has ended: the
\* `async for` completes and the handler reaches `finally`.
ResponsesEnd ==
    /\ recv_pc = "await"
    /\ gen_pc \in {"done", "failed"}
    /\ recv_pc' = "done"
    /\ UNCHANGED <<result, last_max_word_end_ns, n_results, outcome, closed_warnings,
                   error_logged, client_out, previous_speaker_tag, n_skipped,
                   cfg_vars, gen_vars, cli_vars, now>>

\* The response stream raises: `except Exception` logs the error, the
\* handler reaches `finally` and returns.
ResponsesError ==
    /\ recv_pc = "await"
    /\ recv_pc' = "failed"
    /\ error_logged' = TRUE
    /\ UNCHANGED <<result, last_max_word_end_ns, n_results, outcome, closed_warnings,
                   client_out, previous_speaker_tag, n_skipped,
                   cfg_vars, gen_vars, cli_vars, now>>

----------------------------------------------------------------------------
(* Hysteresis variant of the stabilizer *)

min_switch_words == 3

\* Length of the run of consecutive words carrying `tag` that ends the result.
RECURSIVE TrailingRun(_, _)
TrailingRun(words, tag) ==
    IF words = <<>> \/ words[Len(words)].speaker_tag # tag THEN 0
    ELSE 1 + TrailingRun(SubSeq(words, 1, Len(words) - 1), tag)

\* Faulty variant: the candidate always wins.
SwitchTagAlways(prev, candidate, words) == candidate

\* Keep the previous tag unless the candidate ends the result with a run of
\* at least min_switch_words words.
SwitchTag(prev, candidate, words) ==
    IF prev # None /\ candidate # prev /\ TrailingRun(words, candidate) < min_switch_words
    THEN prev
    ELSE candidate

\* The loop body of the hysteresis variant: unweighted vote, then hysteresis.
HandleResultHyst ==
    /\ recv_pc = "handle"
    /\ LET usable == /\ result.is_final
                     /\ result.alternatives # <<>>
                     /\ result.alternatives[1].words # <<>>
                     /\ ~BlankTranscript(result.alternatives[1].transcript)
                     /\ pre_weight_counts(result.alternatives[1].words) # <<>>
       IN  IF usable
           THEN LET words == result.alternatives[1].words
                    candidate == MajorityTag(pre_weight_counts(words))
                    tag == SwitchTag(previous_speaker_tag, candidate, words)
                IN  /\ previous_speaker_tag' = tag
                    /\ IF CanSend
                       THEN /\ client_out' = Append(client_out,
                                  Event(tag, result.alternatives[1].transcript))
                            /\ outcome' = "sent"
                            /\ UNCHANGED closed_warnings
                       ELSE /\ closed_warnings' = closed_warnings + 1
                            /\ outcome' = "closed"
                            /\ UNCHANGED client_out
           ELSE /\ outcome' = "skipped"
                /\ UNCHANGED <<previous_speaker_tag, client_out, closed_warnings>>
    /\ recv_pc' = "await"
    /\ UNCHANGED <<result, n_results, error_logged, last_max_word_end_ns, n_skipped,
                   cfg_vars, gen_vars, cli_vars, now>>

----------------------------------------------------------------------------
(* Inputs *)

D03 == Duration(0, 300000000)
D05 == Duration(0, 500000000)
D09 == Duration(0, 900000000)
D10 == Duration(1, 0)
EndTimes == {NoDuration, D03, D05, D09, D10}

Text == <<"a">>
Blanks == {<<>>, <<" ">>, <<"\t", " ">>}

\* Results of the whole-connection specification.
ConnResults ==
    {FinalResult(Text, <<Word(1, D05)>>), FinalResult(Text, <<Word(2, D10)>>)}

\* Results for duplicate suppression and the filters before it.
StabResults ==
    {FinalResult(Text, <<Word(1, e)>>) : e \in EndTimes}
    \cup {FinalResult(Text, <<Word(1, e[1]), Word(2, e[2])>>) : e \in EndTimes \X EndTimes}
    \cup {FinalResult(b, <<Word(1, e)>>) : b \in Blanks, e \in {NoDuration, D10}}
    \cup {FinalResult(<<" ", "a", "\n">>, <<Word(2, D09)>>),
          FinalResult(Text, <<Word(None, D05)>>),
          FinalResult(Text, <<>>),
          Result(TRUE, <<>>),
          Result(FALSE, <<Alternative(Text, <<Word(1, D10)>>)>>)}

TagSeqs(tags, n) == UNION {[1 .. k -> tags] : k \in 0 .. n}
Untimed(tagseq) == [i \in 1 .. Len(tagseq) |-> Word(tagseq[i], NoDuration)]

\* Results for the vote: every tagging of up to MaxWords words.
VoteResults == {FinalResult(Text, Untimed(t)) : t \in TagSeqs({1, 2, None}, MaxWords)}

MaxHystWords == 3
HystResults == {FinalResult(Text, Untimed(t)) : t \in TagSeqs({1, 2}, MaxHystWords)}

\* Chunk lengths of `lens` the client may still send when it sends at most
\* maxFrames frames in all.
ClientChunks(lens, maxFrames) == {n \in lens : next_off + n <= maxFrames * frame_bytes}

----------------------------------------------------------------------------
(* Specifications *)

\* The connection right after websocket.accept() and streaming_recognize().
Start ==
    /\ gen_pc = "start"
    /\ buffer = [off |-> 0, len |-> 0]
    /\ speech_active = FALSE
    /\ preroll = <<>>
    /\ unvoiced_count = 0
    /\ last_client_data_ts = 0
    /\ wait_start = 0
    /\ upstream = <<>>
    /\ next_off = 0
    /\ client_closed = FALSE
    /\ client_state = "CONNECTED"
    /\ client_out = <<>>
    /\ recv_pc = "await"
    /\ result = NoResult
    /\ last_max_word_end_ns = None
    /\ n_results = 0
    /\ outcome = "none"
    /\ closed_warnings = 0
    /\ error_logged = FALSE
    /\ now = 0
    /\ last_emit_ts = 0
    /\ processed = <<>>
    /\ last_keepalive_ts = None
    /\ n_skipped = 0
    /\ previous_speaker_tag = None

GateDefaults ==
    /\ preroll_ms = DefaultPrerollMs
    /\ hangover_ms = DefaultHangoverMs
    /\ keepalive_ms = DefaultKeepaliveMs

VoteDefaults ==
    /\ tail_words = DefaultTailWords
    /\ tail_weight = DefaultTailWeight

\* Whole connection, gating on or off, default windows, keepalive short or default.
Init ==
    /\ use_vad \in BOOLEAN
    /\ preroll_ms = DefaultPrerollMs
    /\ hangover_ms = DefaultHangoverMs
    /\ keepalive_ms \in {TickMs, DefaultKeepaliveMs}
    /\ VoteDefaults
    /\ Start

GateLoop(lens, maxFrames) ==
    \/ SendConfig
    \/ \E n \in ClientChunks(lens, maxFrames) : RecvChunkGated(n)
    \/ \E s \in BOOLEAN : ProcessFrame(s)

SendLoop(lens, maxFrames) ==
    \/ GateLoop(lens, maxFrames)
    \/ \E n \in ClientChunks(lens, maxFrames) :
           Len(upstream) <= MaxChunks /\ RecvChunkUngated(n)

Next ==
    \/ SendLoop(ConnChunkLens, MaxConnFrames)
    \/ Timeout
    \/ (now < MaxConnTicks * TickMs /\ Tick)
    \/ RecvDisconnect
    \/ RecvFail
    \/ ClientClose
    \/ \E r \in ConnResults : RecognizerResponse(r)
    \/ HandleResult
    \/ ResponsesEnd
    \/ ResponsesError

Spec == Init /\ [][Next]_vars

\* The event loop runs every task that can run; the recognizer ends the
\* response stream once the request stream has ended; a closed client
\* connection is reported to the pending receive.
Fairness ==
    /\ WF_vars(SendConfig)
    /\ WF_vars(\E s \in BOOLEAN : ProcessFrame(s))
    /\ WF_vars(RecvDisconnect)
    /\ WF_vars(HandleResult)
    /\ WF_vars(ResponsesEnd)

FairSpec == Init /\ [][Next]_vars /\ Fairness

\* The gate alone, over the preroll and hangover configurations.
InitGate ==
    /\ use_vad = TRUE
    /\ preroll_ms \in PrerollMsChoices
    /\ hangover_ms \in HangoverMsChoices
    /\ keepalive_ms = DefaultKeepaliveMs
    /\ VoteDefaults
    /\ Start

NextGate == GateLoop(ChunkLens, MaxFrames)

SpecGate == InitGate /\ [][NextGate]_vars

\* The send loop with the clock, over the keepalive configurations.
InitSend ==
    /\ \E vad_enabled, vad_available \in BOOLEAN :
           use_vad = EffectiveUseVad(vad_enabled, vad_available)
    /\ \/ ~use_vad /\ GateDefaults
       \/ /\ use_vad
          /\ preroll_ms = 0
          /\ hangover_ms = frame_ms
          /\ keepalive_ms \in KeepaliveMsChoices
    /\ VoteDefaults
    /\ Start

NextSend ==
    \/ SendLoop(ChunkLens, MaxTimedFrames)
    \/ Timeout
    \/ Tick

SpecSend == InitSend /\ [][NextSend]_vars

\* The receive loop alone, over results with end times.
InitStab ==
    /\ use_vad = TRUE
    /\ GateDefaults
    /\ VoteDefaults
    /\ Start

NextStab ==
    \/ \E r \in StabResults : RecognizerResponse(r)
    \/ HandleResult

SpecStab == InitStab /\ [][NextStab]_vars

\* The vote on one result, over taggings and tail-weighting configurations.
InitVote ==
    /\ use_vad = TRUE
    /\ GateDefaults
    /\ tail_words \in TailWordsChoices
    /\ tail_weight \in TailWeightChoices
    /\ gen_pc = "start"
    /\ buffer = [off |-> 0, len |-> 0]
    /\ speech_active = FALSE
    /\ preroll = <<>>
    /\ unvoiced_count = 0
    /\ last_client_data_ts = 0
    /\ wait_start = 0
    /\ upstream = <<>>
    /\ next_off = 0
    /\ client_closed = FALSE
    /\ client_state = "CONNECTED"
    /\ client_out = <<>>
    /\ recv_pc = "handle"
    /\ result \in VoteResults
    /\ last_max_word_end_ns = None
    /\ n_results = 1
    /\ outcome = "none"
    /\ closed_warnings = 0
    /\ error_logged = FALSE
    /\ now = 0
    /\ last_emit_ts = 0
    /\ processed = <<>>
    /\ last_keepalive_ts = None
    /\ n_skipped = 0
    /\ previous_speaker_tag = None

NextVote == HandleResult

SpecVote == InitVote /\ [][NextVote]_vars

\* The hysteresis variant of the receive loop.
NextHyst ==
    \/ \E r \in HystResults : RecognizerResponse(r)
    \/ HandleResultHyst

SpecHyst == InitStab /\ [][NextHyst]_vars

----------------------------------------------------------------------------
(* Properties *)

Last(q) == q[Len(q)]

\* Offsets of the client frames forwarded upstream, in the order forwarded
\* (the configuration message and keepalive frames left out).
ForwardedOffs ==
    LET fwd == SelectSeq(upstream, LAMBDA m : m.kind = "audio" /\ m.off # None)
    IN  [i \in 1 .. Len(fwd) |-> fwd[i].off]

\* Frame k was classified non-speech in IDLE and lies in the preroll window
\* of a later IDLE->ACTIVE transition j.
InFlushedPreroll(k) ==
    \E j \in (k + 1) .. Len(processed) :
        /\ ~processed[j].active /\ processed[j].speech
        /\ j - k <= preroll_frames
        /\ \A i \in k .. (j - 1) : ~processed[i].active /\ ~processed[i].speech

\* C1: with gating enabled, the client frames forwarded upstream are the
\* preroll frames flushed at each IDLE->ACTIVE transition plus every frame
\* processed while ACTIVE (the frame that triggers the transition included),
\* in client order, each exactly once; no other frame processed in IDLE is
\* forwarded.
C1_GateForwardsEachFrameOnce ==
    (use_vad /\ gen_pc \in {"recv", "drain"}) =>
        /\ \A i, j \in 1 .. Len(ForwardedOffs) :
               i < j => ForwardedOffs[i] < ForwardedOffs[j]
        /\ \A k \in 1 .. Len(processed) :
               (processed[k].active \/ processed[k].speech)
                   => \E i \in 1 .. Len(ForwardedOffs) : ForwardedOffs[i] = processed[k].off
        /\ \A k \in 1 .. Len(processed) :
               (/\ ~processed[k].active /\ ~processed[k].speech
                /\ \E i \in 1 .. Len(ForwardedOffs) : ForwardedOffs[i] = processed[k].off)
                   => InFlushedPreroll(k)

\* Reference definitions for the stabilizer, by counting.
WordsOf(r) == r.alternatives[1].words
TagsOf(words) == {words[i].speaker_tag : i \in 1 .. Len(words)} \ {None}
EndNsSet(words) ==
    {words[i].end_time.seconds * 1000000000 + words[i].end_time.nanos :
        i \in {k \in 1 .. Len(words) : words[k].end_time.seconds # None}}
MaxEndNs(words) ==
    IF EndNsSet(words) = {} THEN None
    ELSE CHOOSE m \in EndNsSet(words) : \A x \in EndNsSet(words) : x <= m
CountTag(words, tag) ==
    Cardinality({i \in 1 .. Len(words) : words[i].speaker_tag = tag})
TailCountTag(words, tag, k) ==
    Cardinality({i \in 1 .. Len(words) : i > Len(words) - k /\ words[i].speaker_tag = tag})
Accepted(r) == r.is_final /\ r.alternatives # <<>> /\ WordsOf(r) # <<>>

\* C2: a final result whose maximum word end time is at most the watermark
\* produces no event; a result that passes duplicate suppression with an end
\* time makes that end time the watermark; the watermark never decreases.
C2_DuplicateSuppressed ==
    [][ /\ last_max_word_end_ns' >= last_max_word_end_ns
        /\ (recv_pc = "handle" /\ recv_pc' = "await" /\ Accepted(result)) =>
              LET cur == MaxEndNs(WordsOf(result)) IN
              /\ (cur # None /\ last_max_word_end_ns # None /\ cur <= last_max_word_end_ns)
                    => /\ client_out' = client_out
                       /\ last_max_word_end_ns' = last_max_word_end_ns
              /\ (client_out' # client_out /\ cur # None)
                    => last_max_word_end_ns' = cur
      ]_vars

\* The results [0.5 s, 1.0 s] then [0.3 s, 0.9 s]: the second was suppressed.
C2_Witness ==
    /\ outcome = "duplicate"
    /\ recv_pc = "await"
    /\ result = FinalResult(Text, <<Word(1, D03), Word(2, D09)>>)
    /\ last_max_word_end_ns = 1000000000
    /\ Len(client_out) = 1

\* The weighted histogram as the claim states it, and with the tail term
\* only for a tail weight above 1.
ClaimedWeight(words, tag) ==
    CountTag(words, tag) + (tail_weight - 1) * TailCountTag(words, tag, tail_words)
AmendedWeight(words, tag) ==
    CountTag(words, tag)
        + (IF tail_weight > 1 THEN (tail_weight - 1) * TailCountTag(words, tag, tail_words) ELSE 0)

\* C3 (as stated): the emitted speaker_tag maximises count + (tail_weight - 1)
\* x (count among the last tail_words words), for every configuration.
C3_Original ==
    outcome = "sent" =>
        /\ Last(client_out).speaker_tag \in TagsOf(WordsOf(result))
        /\ \A t \in TagsOf(WordsOf(result)) :
               ClaimedWeight(WordsOf(result), Last(client_out).speaker_tag)
                   >= ClaimedWeight(WordsOf(result), t)

\* C3 (amended): the emitted speaker_tag maximises the histogram count +
\* (tail_weight - 1) x (count among the last tail_words words) when
\* tail_weight > 1, and the plain count when tail_weight <= 1.
C3_ArgmaxWeighted ==
    outcome = "sent" =>
        /\ Last(client_out).speaker_tag \in TagsOf(WordsOf(result))
        /\ \A t \in TagsOf(WordsOf(result)) :
               AmendedWeight(WordsOf(result), Last(client_out).speaker_tag)
                   >= AmendedWeight(WordsOf(result), t)

\* Words tagged [1,1,1,2,2] with tail_words = 2, tail_weight = 2: histogram
\* {1: 3, 2: 4}, speaker_tag 2.
C3_Witness ==
    /\ outcome = "sent"
    /\ tail_words = 2 /\ tail_weight = 2
    /\ WordsOf(result) = Untimed(<<1, 1, 1, 2, 2>>)
    /\ AmendedWeight(WordsOf(result), 1) = 3
    /\ AmendedWeight(WordsOf(result), 2) = 4
    /\ Last(client_out).speaker_tag = 2

\* The candidate of the unweighted vote and the run of words that ends the
\* result with it, by counting.
FirstIndex(words, tag) ==
    CHOOSE i \in 1 .. Len(words) :
        words[i].speaker_tag = tag /\ \A k \in 1 .. (i - 1) : words[k].speaker_tag # tag
Candidate(words) ==
    CHOOSE t \in TagsOf(words) : \A u \in TagsOf(words) :
        \/ CountTag(words, t) > CountTag(words, u)
        \/ CountTag(words, t) = CountTag(words, u)
              /\ FirstIndex(words, t) <= FirstIndex(words, u)
RunAtEnd(words, tag) ==
    LET others == {i \in 1 .. Len(words) : words[i].speaker_tag # tag}
    IN  Len(words) - (IF others = {} THEN 0 ELSE CHOOSE m \in others : \A x \in others : x <= m)

\* C4: with a previous tag, a different candidate and a trailing run of the
\* candidate shorter than min_switch_words (3), the emitted tag is the
\* previous tag; otherwise the emitted tag is the candidate and the previous
\* tag becomes the candidate.
C4_SwitchHysteresis ==
    [][ (recv_pc = "handle" /\ client_out' # client_out) =>
            LET words == WordsOf(result)
                cand == Candidate(words)
                keep == /\ previous_speaker_tag # None
                        /\ cand # previous_speaker_tag
                        /\ RunAtEnd(words, cand) < 3
            IN  /\ keep => /\ Last(client_out').speaker_tag = previous_speaker_tag
                           /\ previous_speaker_tag' = previous_speaker_tag
                /\ ~keep => /\ Last(client_out').speaker_tag = cand
                            /\ previous_speaker_tag' = cand
      ]_vars

\* previous = 1, candidate = 2 with a trailing run of 2: tag 1 is kept.
C4_Witness ==
    /\ outcome = "sent"
    /\ Len(client_out) = 2
    /\ client_out[1].speaker_tag = 1
    /\ WordsOf(result) = Untimed(<<1, 2, 2>>)
    /\ client_out[2].speaker_tag = 1
    /\ previous_speaker_tag = 1

\* C5: a final result whose transcript is empty or only whitespace produces
\* no event and leaves the watermark unchanged.
C5_BlankTranscriptDropped ==
    [][ (/\ recv_pc = "handle" /\ recv_pc' = "await"
         /\ Accepted(result)
         /\ \A i \in 1 .. Len(result.alternatives[1].transcript) :
                result.alternatives[1].transcript[i] \in {" ", "\t", "\n"})
        => /\ client_out' = client_out
           /\ last_max_word_end_ns' = last_max_word_end_ns
      ]_vars

\* A whitespace-only transcript with a timed, tagged word was dropped.
C5_Witness ==
    /\ outcome = "blank"
    /\ recv_pc = "await"
    /\ result = FinalResult(<<"\t", " ">>, <<Word(1, D10)>>)
    /\ client_out = <<>>

KeepaliveSent ==
    /\ Len(upstream') = Len(upstream) + 1
    /\ Last(upstream').kind = "audio"
    /\ Last(upstream').off = None

\* C7 (as stated): a keepalive is sent only with gating enabled, the gate
\* IDLE, and keepalive_ms elapsed since the last client data and since the
\* last client frame emitted upstream.
C7_Original ==
    [][ KeepaliveSent =>
            /\ use_vad
            /\ ~speech_active
            /\ now - last_client_data_ts >= keepalive_ms
            /\ now - last_emit_ts >= keepalive_ms
      ]_vars

\* C7 (amended): a keepalive is sent only with gating enabled, the gate
\* IDLE, and keepalive_ms elapsed since the last client data.
C7_KeepaliveOnlyIdle ==
    [][ KeepaliveSent =>
            /\ use_vad
            /\ ~speech_active
            /\ now - last_client_data_ts >= keepalive_ms
      ]_vars

\* A keepalive was sent after client frames had been classified.
C7_Witness ==
    /\ processed # <<>>
    /\ upstream # <<>>
    /\ Last(upstream).kind = "audio"
    /\ Last(upstream).off = None

\* C8: an event is sent to the client only while client_state is CONNECTED;
\* once the disconnect has been reported no result produces a send.
C8_NoSendAfterClose ==
    [][ /\ client_out' # client_out => client_state = "CONNECTED"
        /\ client_state = "DISCONNECTED" => client_out' = client_out
      ]_vars

\* An event was sent, the client disconnected, and a later result that had
\* passed the vote was not sent.
C8_Witness ==
    /\ client_state = "DISCONNECTED"
    /\ Len(client_out) = 1
    /\ outcome = "closed"
    /\ closed_warnings = 1

\* C9: a reported client disconnect ends the send loop with no further
\* request; the receive loop then terminates; the disconnect itself logs
\* no error.
C9_CleanDisconnect ==
    /\ [](client_state = "DISCONNECTED" => gen_pc = "done")
    /\ [][gen_pc = "done" => (gen_pc' = "done" /\ upstream' = upstream)]_vars
    /\ [][client_state' # client_state => error_logged' = error_logged]_vars
    /\ [](recv_pc = "done" => ~error_logged)
    /\ (client_state = "DISCONNECTED") ~> (recv_pc \in {"done", "failed"})

\* Both loops have ended after a disconnect, audio was sent, no error logged.
C9_Witness ==
    /\ client_state = "DISCONNECTED"
    /\ gen_pc = "done"
    /\ recv_pc = "done"
    /\ Len(upstream) >= 2
    /\ ~error_logged

\* C10: once either loop has failed, both loops eventually stop.
C10_BoundedShutdown ==
    (recv_pc = "failed" \/ gen_pc = "failed")
        ~> (recv_pc \in {"done", "failed"} /\ gen_pc \in {"done", "failed", "abandoned"})

\* C11: a result that is not final, has no alternatives, or whose first
\* alternative has no words is skipped: no event, watermark unchanged, no
\* error logged, and the loop goes on to the next result; an event that is
\* sent is appended for the result just received (arrival order).
C11_MalformedSkipped ==
    [][ /\ (recv_pc = "handle" /\ recv_pc' # "handle" /\ ~Accepted(result)) =>
              /\ client_out' = client_out
              /\ last_max_word_end_ns' = last_max_word_end_ns
              /\ error_logged' = error_logged
              /\ recv_pc' = "await"
        /\ client_out' # client_out =>
              /\ recv_pc = "handle"
              /\ Accepted(result)
              /\ Len(client_out') = Len(client_out) + 1
              /\ SubSeq(client_out', 1, Len(client_out)) = client_out
              /\ Last(client_out').transcript = result.alternatives[1].transcript
      ]_vars

\* A result was skipped as not final or malformed, and the next, well-formed
\* final result was delivered.
C11_Witness ==
    /\ n_skipped = 1
    /\ n_results = 2
    /\ outcome = "sent"
    /\ Len(client_out) = 1
    /\ recv_pc = "await"
    /\ ~error_logged

SpeechFrames == {k \in 1 .. Len(processed) : processed[k].speech}
Transitions == {k \in 1 .. Len(processed) : ~processed[k].active /\ processed[k].speech}

\* The client frames forwarded up to and including frame k, in the order
\* forwarded.
ForwardedUpTo(k) == SelectSeq(ForwardedOffs, LAMBDA o : o <= processed[k].off)

\* C13: from IDLE with a cleared preroll buffer, a single speech frame after
\* n non-speech frames and before non-speech frames only makes exactly one
\* IDLE->ACTIVE transition, which forwards the last min(n, preroll capacity)
\* frames before it, then the speech frame.
C13_SingleSpeechFrame ==
    (use_vad /\ gen_pc \in {"recv", "drain"} /\ Cardinality(SpeechFrames) = 1) =>
        LET k == CHOOSE x \in SpeechFrames : TRUE
            n == k - 1
            m == IF n < preroll_frames THEN n ELSE preroll_frames
        IN  /\ Transitions = {k}
            /\ ForwardedUpTo(k) = [i \in 1 .. (m + 1) |-> processed[k - m + i - 1].off]

\* The number of non-speech frames processed since the last speech frame.
TrailingNonSpeech ==
    Len(processed)
        - (IF SpeechFrames = {} THEN 0
           ELSE CHOOSE m \in SpeechFrames : \A x \in SpeechFrames : x <= m)

\* C14: while ACTIVE a speech frame resets the silence run to 0; a non-speech
\* frame that makes the run shorter than hangover_frames leaves the gate
\* ACTIVE; the non-speech frame that makes the run hangover_frames long moves
\* the gate to IDLE with the counter 0 and the preroll buffer cleared.
C14_HangoverCount ==
    [][ (speech_active /\ processed' # processed) =>
            LET run == TrailingNonSpeech + 1 IN
            /\ Last(processed').speech =>
                   speech_active' /\ unvoiced_count' = 0
            /\ (~Last(processed').speech /\ run < hangover_frames) =>
                   speech_active' /\ unvoiced_count' = run
            /\ (~Last(processed').speech /\ run >= hangover_frames) =>
                   /\ ~speech_active'
                   /\ run = hangover_frames
                   /\ unvoiced_count' = 0
                   /\ preroll' = <<>>
      ]_vars

\* hangover_frames = 3: after a speech frame the gate was still ACTIVE
\* through two non-speech frames, and the third moved it to IDLE.
C14_Witness ==
    /\ hangover_frames = 3
    /\ Len(processed) = 4
    /\ processed[1].speech
    /\ \A k \in 2 .. 4 : processed[k].active /\ ~processed[k].speech
    /\ ~speech_active
    /\ unvoiced_count = 0
    /\ preroll = <<>>

\* C15: a keepalive restarts the keepalive interval: with no client data
\* since the previous keepalive, the next keepalive comes at least
\* keepalive_ms after it.
C15_KeepaliveSpacing ==
    [][ (/\ KeepaliveSent
         /\ last_keepalive_ts # None
         /\ last_client_data_ts < last_keepalive_ts)
            => now - last_keepalive_ts >= keepalive_ms
      ]_vars

\* C16: a keepalive leaves the gate state, the silence-run counter, the
\* remainder buffer and the preroll buffer unchanged; the zero frame is never
\* in the preroll buffer, and no frame-processing step (a preroll flush
\* included) sends one.
C16_KeepaliveLeavesGate ==
    /\ [][ KeepaliveSent =>
              /\ speech_active' = speech_active
              /\ unvoiced_count' = unvoiced_count
              /\ buffer' = buffer
              /\ preroll' = preroll
         ]_vars
    /\ [](\A i \in 1 .. Len(preroll) : preroll[i] # zero_frame /\ preroll[i].off # None)
    /\ [][ processed' # processed =>
              \A i \in (Len(upstream) + 1) .. Len(upstream') : upstream'[i].off # None
         ]_vars

\* A keepalive was sent while the preroll buffer held a frame and the
\* remainder buffer held half a frame, with no client data since: both are
\* as they were.
C16_Witness ==
    /\ last_keepalive_ts # None
    /\ last_client_data_ts < last_keepalive_ts
    /\ gen_pc = "recv"
    /\ ~speech_active
    /\ Len(preroll) = 1 /\ preroll[1].off = 0
    /\ buffer = [off |-> frame_bytes, len |-> frame_bytes \div 2]
    /\ Last(upstream).off = None

\* The tags whose weight in the histogram is maximal.
TiedTags(words) ==
    {t \in TagsOf(words) :
        \A u \in TagsOf(words) : AmendedWeight(words, t) >= AmendedWeight(words, u)}

\* C17: when several tags share the maximum weight, the emitted speaker_tag
\* is the tied tag whose first tagged word comes earliest in the result; the
\* histogram after tail weighting lists the tags in order of first occurrence.
C17_TieFirstInserted ==
    outcome = "sent" =>
        LET words == WordsOf(result)
            tag == Last(client_out).speaker_tag
            d == tag_counts(words)
        IN  /\ tag \in TiedTags(words)
            /\ \A u \in TiedTags(words) : FirstIndex(words, tag) <= FirstIndex(words, u)
            /\ \A i, j \in 1 .. Len(d) :
                   i < j => FirstIndex(words, d[i].tag) < FirstIndex(words, d[j].tag)

\* Words tagged [2,1,1,2] with tail_words = 2, tail_weight = 2: both tags
\* weigh 3, tag 2 was met first and is emitted.
C17_Witness ==
    /\ outcome = "sent"
    /\ tail_words = 2 /\ tail_weight = 2
    /\ WordsOf(result) = Untimed(<<2, 1, 1, 2>>)
    /\ TiedTags(WordsOf(result)) = {1, 2}
    /\ Last(client_out).speaker_tag = 2

\* A window of ms milliseconds in frames, rounded up, at least 1.
CeilFrames(ms) == Max(1, (ms + frame_ms - 1) \div frame_ms)

\* C18: the preroll capacity and hangover_frames used by the gate are the
\* configured windows divided by the frame duration, rounded up, at least 1.
C18_WindowFramesRoundedUp ==
    (use_vad /\ gen_pc # "start") =>
        /\ preroll_frames = CeilFrames(preroll_ms)
        /\ hangover_frames = CeilFrames(hangover_ms)

\* C19: the frames cut by the reframer are the consecutive frame_bytes-long
\* pieces of the client stream, the remainder starts where the last frame
\* ended and reaches to the last byte received, and once a chunk has been
\* processed the remainder is shorter than frame_bytes.
C19_ReframerPartition ==
    use_vad =>
        /\ \A k \in 1 .. Len(processed) : processed[k].off = (k - 1) * frame_bytes
        /\ buffer.off = Len(processed) * frame_bytes
        /\ buffer.len >= 0
        /\ buffer.off + buffer.len = next_off
        /\ gen_pc = "recv" => buffer.len < frame_bytes
        /\ \A i \in 1 .. Len(upstream) :
               upstream[i].kind = "audio" =>
                   /\ upstream[i].len = frame_bytes
                   /\ upstream[i].off # None =>
                          \E k \in 1 .. Len(processed) : processed[k].off = upstream[i].off

\* A frame and a half received: one frame was cut and half a frame is kept
\* for the next chunk.
C19_Witness ==
    /\ use_vad
    /\ gen_pc = "recv"
    /\ next_off = frame_bytes + frame_bytes \div 2
    /\ Len(processed) = 1
    /\ buffer = [off |-> frame_bytes, len |-> frame_bytes \div 2]

\* C20: between the processing of two frames the preroll buffer holds at
\* most its capacity, it is empty whenever the gate is ACTIVE, the
\* silence-run counter is 0 whenever the gate is IDLE, and the counter is at
\* least 0 and less than hangover_frames.
C20_GateInvariant ==
    use_vad =>
        /\ Len(preroll) <= preroll_frames
        /\ speech_active => preroll = <<>>
        /\ ~speech_active => unvoiced_count = 0
        /\ unvoiced_count >= 0
        /\ unvoiced_count < hangover_frames

\* Capacity 2 and three non-speech frames in IDLE: the buffer holds the last
\* two, the first was evicted.
C20_Witness ==
    /\ use_vad
    /\ preroll_frames = 2
    /\ Len(processed) = 3
    /\ ~speech_active
    /\ unvoiced_count = 0
    /\ preroll = <<[off |-> frame_bytes, len |-> frame_bytes],
                   [off |-> 2 * frame_bytes, len |-> frame_bytes]>>

====
